---- MODULE Spec2Model ----
(***************************************************************************)
(* A model of the rgy Game Boy emulator core:                              *)
(*   - core/src/system.rs : Config, System::new (the bus handler table),   *)
(*     System::step, System::poll, run_inner;                              *)
(*   - core/src/sound.rs  : the sound register handler (Inner::on_write,   *)
(*     Inner::on_read, Inner::play_tone1) and the Speaker collaborator.    *)
(* The components whose code is not part of these two files (Cpu, Mmu,     *)
(* Ic, Dma and the peripherals) are modelled from the specification and    *)
(* say so where they are defined.                                          *)
(*                                                                         *)
(* Three specifications share the module:                                  *)
(*   Spec      - the poll/step loop of System (one action per poll call);  *)
(*   BusSpec   - bus accesses dispatched through the handler table that    *)
(*               System::new registers;                                    *)
(*   SoundSpec - writes and reads reaching the sound handler.              *)
(***************************************************************************)
EXTENDS Integers, Sequences, FiniteSets, TLC

VARIABLES
    \* ---- System (system.rs) ----
    native_speed,   \* cfg.native_speed, fixed at construction
    halted,         \* a poll has returned false: the run loop has ended
    polls,          \* number of poll calls made so far
    ret,            \* what the last poll returned: "none", "true", "false"
    gpu_enabled,    \* the argument of the last poll
    trace,          \* the calls the last poll made, in order
    cpu,            \* the Cpu: [ime, ei, n]
    irq,            \* the shared interrupt cell: [rq (IF), en (IE)]
    watch,          \* the raised line whose service is awaited: [line, age]
    latency,        \* cycles the last serviced watched line waited (-1: none)
    raises,         \* number of lines raised so far
    snapshot,       \* the Cpu snapshot the debugger holds
    advanced,       \* how many times each component was advanced
    \* ---- bus (System::new's table, Mmu dispatch) ----
    dmaActive,      \* the Dma's transfer flag
    ram,            \* the Mmu's backing bytes, at the addresses the model uses
    access,         \* the last bus access and how it was dispatched
    busOps,         \* number of bus accesses made so far
    \* ---- sound (sound.rs) ----
    tone,           \* Inner.tone
    speaker,        \* the calls made on the Speaker, in order
    lastWrite,      \* the last access that reached the sound handler
    regs,           \* the last byte written to FF13 and to FF14 (0: none yet)
    writes          \* number of accesses that reached the sound handler

sysVars == <<native_speed, halted, polls, ret, gpu_enabled, trace, cpu, irq,
             watch, latency, raises, snapshot, advanced>>
busVars == <<dmaActive, ram, access, busOps>>
sndVars == <<tone, speaker, lastWrite, regs, writes>>
vars == <<sysVars, busVars, sndVars>>

(***************************************************************************)
(* Bounds of the model.                                                    *)
(***************************************************************************)
MaxPolls == 3
MaxRaises == 1
MaxBusOps == 2
MaxWrites == 3

NoArg == 0 - 1

(***************************************************************************)
(* The interrupt lines, in priority order (highest first), and the         *)
(* component that raises each.  system.rs hands a clone of the shared      *)
(* cell to the Gpu, the Joypad, the Timer and the Serial.                  *)
(***************************************************************************)
Lines == <<"vblank", "stat", "timer", "serial", "joypad">>

LineSet == {Lines[i] : i \in 1..Len(Lines)}

RaisedBy(op) ==
    CASE op = "gpu"    -> {"vblank", "stat"}
      [] op = "timer"  -> {"timer"}
      [] op = "serial" -> {"serial"}
      [] op = "joypad" -> {"joypad"}
      [] OTHER         -> {}

\* The highest-priority line of a non-empty set of lines.
Highest(S) == Lines[CHOOSE i \in 1..Len(Lines) :
                      /\ Lines[i] \in S
                      /\ \A j \in 1..(i - 1) : Lines[j] \notin S]

(***************************************************************************)
(* The Cpu.  execute returns the machine cycles of one instruction;        *)
(* check_interrupt charges InterruptCycles when it enters a service        *)
(* vector.                                                                 *)
(***************************************************************************)
MinInstrCycles == 1
MaxInstrCycles == 6
InterruptCycles == 20

\* The cycle counts execute returns in the model: the cheapest and the
\* dearest instruction.
Costs == {MinInstrCycles, MaxInstrCycles}

\* Values a program writes to IE (FFFF).
IeSamples == {{}, LineSet}

\* The instructions the model distinguishes: <<kind, operand>>.
Instrs == {<<"other", {}>>, <<"ei", {}>>, <<"di", {}>>}
              \cup {<<"ld_ie", S>> : S \in IeSamples}

NoWatch == [line |-> "none", age |-> 0]

Aged(w, c) ==
    IF w.line = "none" THEN w
    ELSE [w EXCEPT !.age = IF @ + c > MaxInstrCycles THEN MaxInstrCycles + 1
                           ELSE @ + c]

\* Cpu::execute: one instruction. A pending EI takes effect first.
Execute(st, in) ==
    LET kind == in.instr[1]
        ime1 == st.cpu.ime \/ st.cpu.ei
    IN  [st EXCEPT
           !.cpu = [ime |-> IF kind = "di" THEN FALSE ELSE ime1,
                    ei  |-> kind = "ei" /\ ~ime1,
                    n   |-> st.cpu.n + 1],
           !.irq = IF kind = "ld_ie" THEN [@ EXCEPT !.en = in.instr[2]] ELSE @,
           !.exec = in.cost,
           !.watch = Aged(@, in.cost)]

\* Cpu::check_interrupt: enters the vector of the highest pending enabled
\* line when IME is set, and returns the extra cycles.
CheckInterrupt(st) ==
    LET pending == st.irq.rq \cap st.irq.en
    IN  IF st.cpu.ime /\ pending # {}
        THEN LET l == Highest(pending)
             IN  [st EXCEPT
                    !.cpu = [@ EXCEPT !.ime = FALSE],
                    !.irq = [@ EXCEPT !.rq = @ \ {l}],
                    !.extra = InterruptCycles,
                    !.entered = l,
                    !.latency = IF st.watch.line = l THEN st.watch.age ELSE @,
                    !.watch = IF st.watch.line = l THEN NoWatch ELSE @]
        ELSE [st EXCEPT !.extra = 0]

\* step of the Dma, Gpu, Timer or Serial, Joypad::poll or FreqControl::adjust:
\* the component is advanced once and may raise its lines.
Advance(op, st, in) ==
    LET new   == (in.ev \cap RaisedBy(op)) \ st.irq.rq
        fresh == {l \in new : l \in st.irq.en}
    IN  [st EXCEPT
           !.advanced = [@ EXCEPT ![op] = @ + 1],
           !.irq = [@ EXCEPT !.rq = @ \cup new],
           !.raises = @ + Cardinality(new),
           !.watch = IF @.line = "none" /\ st.cpu.ime /\ fresh # {}
                     THEN [line |-> Highest(fresh), age |-> 0]
                     ELSE @]

Advancers == {"dma", "gpu", "timer", "serial", "joypad", "adjust"}

(***************************************************************************)
(* System::step and System::poll.                                          *)
(***************************************************************************)
\* The cycle count a call receives: Gpu::step, Timer::step, Serial::step and
\* FreqControl::adjust receive `time`; Dma::step receives the bus only.
ArgOf(op, time) ==
    IF op \in {"gpu", "timer", "serial", "adjust"} THEN time ELSE NoArg

\* A variant of step without the block around the debugger's hooks: the
\* debugger's borrow lives to the end of step.
HeldDuringUnscopedDbg(op) ==
    CASE op = "sched"                                       -> {"hw"}
      [] op \in {"dma", "gpu", "timer", "serial", "joypad"} -> {op, "dbg"}
      [] OTHER                                              -> {"dbg"}

\* The cell whose exclusive borrow the caller holds during a call: poll
\* borrows the hardware handle for sched(), step the debugger for the three
\* pre-decode hooks and each peripheral for its own advance.
HeldDuring(op) ==
    CASE op = "sched"                                              -> {"hw"}
      [] op \in {"check_signal", "take_cpu_snapshot", "on_decode"} -> {"dbg"}
      [] op \in {"dma", "gpu", "timer", "serial", "joypad"}        -> {op}
      [] OTHER                                                     -> {}

\* Variants of the step and of the poll with a plausible slip each.
StepOrderGpuBeforeDma(ge, ns) ==
    <<"check_signal", "take_cpu_snapshot", "on_decode",
      "execute", "check_interrupt">>
    \o (IF ge THEN <<"gpu">> ELSE <<>>)
    \o <<"dma", "timer", "serial", "joypad">>
    \o (IF ~ns THEN <<"adjust">> ELSE <<>>)

StepOrderAlwaysAdjust(ge, ns) ==
    <<"check_signal", "take_cpu_snapshot", "on_decode",
      "execute", "check_interrupt", "dma">>
    \o (IF ge THEN <<"gpu">> ELSE <<>>)
    \o <<"timer", "serial", "joypad", "adjust">>

StepOrderAlwaysGpu(ge, ns) ==
    <<"check_signal", "take_cpu_snapshot", "on_decode",
      "execute", "check_interrupt", "dma", "gpu", "timer", "serial", "joypad">>
    \o (IF ~ns THEN <<"adjust">> ELSE <<>>)

\* The calls of System::step, in program order.
StepOrder(ge, ns) ==
    <<"check_signal", "take_cpu_snapshot", "on_decode",
      "execute", "check_interrupt", "dma">>
    \o (IF ge THEN <<"gpu">> ELSE <<>>)
    \o <<"timer", "serial", "joypad">>
    \o (IF ~ns THEN <<"adjust">> ELSE <<>>)

PollOrderIgnoringSched(s, ge, ns) ==
    <<"sched">> \o StepOrder(ge, ns)

\* The calls of System::poll: the host's sched(), then one step unless
\* sched() returned false.
PollOrder(s, ge, ns) ==
    <<"sched">> \o (IF s THEN StepOrder(ge, ns) ELSE <<>>)

\* What a call returns to the step loop: execute its cycles, check_interrupt
\* its extra cycles.
Returned(op, st) ==
    CASE op = "execute"         -> st.exec
      [] op = "check_interrupt" -> st.extra
      [] OTHER                  -> NoArg

\* A variant in which the interrupt check's cycles replace the instruction's.
TimeAfterOverwrite(op, time, out) ==
    CASE op \in {"execute", "check_interrupt"} -> out
      [] OTHER                                 -> time

\* The step's local `time` after a call: let mut time = cpu.execute(..);
\* time += cpu.check_interrupt(..); no other call changes it.
TimeAfter(op, time, out) ==
    CASE op = "execute"         -> out
      [] op = "check_interrupt" -> time + out
      [] OTHER                  -> time

\* One call of the poll: its effect, and its record in the trace.
ApplyOp(op, st, in) ==
    LET done == CASE op = "take_cpu_snapshot" -> [st EXCEPT !.snapshot = st.cpu]
                  [] op = "execute"           -> Execute(st, in)
                  [] op = "check_interrupt"   -> CheckInterrupt(st)
                  [] op \in Advancers         -> Advance(op, st, in)
                  [] OTHER                    -> st
    IN  [done EXCEPT
           !.time = TimeAfter(op, st.time, Returned(op, done)),
           !.trace =
            Append(@, [op   |-> op,
                       arg  |-> ArgOf(op, st.time),
                       out  |-> Returned(op, done),
                       held |-> HeldDuring(op)])]

RECURSIVE RunOps(_, _, _)
RunOps(ops, st, in) ==
    IF ops = <<>> THEN st
    ELSE RunOps(Tail(ops), ApplyOp(Head(ops), st, in), in)

\* System::poll(ge) with the host's inputs: s is what sched() returns.
PollWith(ge, s, instr, cost, ev) ==
    LET in  == [instr |-> instr, cost |-> cost, ev |-> ev]
        st0 == [trace |-> <<>>, time |-> 0, exec |-> NoArg, extra |-> NoArg,
                entered |-> "none", cpu |-> cpu, irq |-> irq, watch |-> watch,
                latency |-> latency, raises |-> raises,
                snapshot |-> snapshot, advanced |-> advanced]
    IN  \E st \in {RunOps(PollOrder(s, ge, native_speed), st0, in)} :
        /\ polls' = polls + 1
        /\ gpu_enabled' = ge
        /\ ret' = IF s THEN "true" ELSE "false"
        /\ halted' = ~s
        /\ trace' = st.trace
        /\ cpu' = st.cpu
        /\ irq' = st.irq
        /\ watch' = st.watch
        /\ latency' = st.latency
        /\ raises' = st.raises
        /\ snapshot' = st.snapshot
        /\ advanced' = st.advanced
        /\ UNCHANGED native_speed

\* The lines the peripherals may raise during one step.
Events == {ev \in SUBSET LineSet : Cardinality(ev) <= MaxRaises - raises}

Poll(ge) ==
    /\ ~halted
    /\ polls < MaxPolls
    /\ \/ PollWith(ge, FALSE, <<"other", {}>>, MinInstrCycles, {})
       \/ \E instr \in Instrs, cost \in Costs, ev \in Events :
             PollWith(ge, TRUE, instr, cost, ev)
    /\ UNCHANGED <<busVars, sndVars>>

\* A host driving the emulator through the public poll.
HostPoll == \E ge \in BOOLEAN : Poll(ge)

\* One iteration of run_inner's loop: while sys.poll(true) {}.
RunInner == Poll(TRUE)

SysInit ==
    /\ native_speed \in BOOLEAN
    /\ halted = FALSE
    /\ polls = 0
    /\ ret = "none"
    /\ gpu_enabled = TRUE
    /\ trace = <<>>
    /\ cpu = [ime |-> FALSE, ei |-> FALSE, n |-> 0]
    /\ irq = [rq |-> {}, en |-> {}]
    /\ watch = NoWatch
    /\ latency = NoArg
    /\ raises = 0
    /\ snapshot = [ime |-> FALSE, ei |-> FALSE, n |-> 0]
    /\ advanced = [c \in Advancers |-> 0]

(***************************************************************************)
(* The sound handler (sound.rs).                                           *)
(***************************************************************************)
\* impl From<u8> for WaveDuty: 0..3 name the four duties; any other value
\* reaches unreachable!().
WaveDutyFrom(n) ==
    CASE n = 0 -> "P125"
      [] n = 1 -> "P250"
      [] n = 2 -> "P500"
      [] n = 3 -> "P750"
      [] OTHER -> "unreachable"

\* Inner::new: the tone after construction.
ToneInit ==
    [sweep_time |-> 0, sweep_sub |-> FALSE, sweep_shift |-> 0,
     sound_len |-> 0, wave_duty |-> "P125",
     env_init |-> 0, env_inc |-> FALSE, env_count |-> 0,
     counter |-> FALSE, freq |-> 0]

\* Bit k of the byte v is set.
Bit(v, k) == (v \div (2 ^ k)) % 2 = 1

\* A variant whose FF12 branch masks the initial volume to three bits, as
\* the FF10 branch does the sweep time.
ToneAfterWriteNarrowEnv(t, addr, value) ==
    CASE addr = 65296 ->
            [t EXCEPT !.sweep_time  = (value \div 16) % 8,
                      !.sweep_sub   = Bit(value, 3),
                      !.sweep_shift = value % 8]
      [] addr = 65297 ->
            [t EXCEPT !.wave_duty = WaveDutyFrom(value \div 64),
                      !.sound_len = value % 64]
      [] addr = 65298 ->
            [t EXCEPT !.env_init  = (value \div 16) % 8,
                      !.env_inc   = Bit(value, 3),
                      !.env_count = value % 8]
      [] addr = 65299 ->
            [t EXCEPT !.freq = (@ - (@ % 256)) + value]
      [] addr = 65300 ->
            [t EXCEPT !.counter = Bit(value, 6),
                      !.freq = (@ - ((@ \div 256) % 8) * 256) + (value % 8) * 256]
      [] OTHER -> t

\* A variant whose FF14 branch keeps four bits of the value.
ToneAfterWriteWideFreq(t, addr, value) ==
    CASE addr = 65296 ->
            [t EXCEPT !.sweep_time  = (value \div 16) % 8,
                      !.sweep_sub   = Bit(value, 3),
                      !.sweep_shift = value % 8]
      [] addr = 65297 ->
            [t EXCEPT !.wave_duty = WaveDutyFrom(value \div 64),
                      !.sound_len = value % 64]
      [] addr = 65298 ->
            [t EXCEPT !.env_init  = value \div 16,
                      !.env_inc   = Bit(value, 3),
                      !.env_count = value % 8]
      [] addr = 65299 ->
            [t EXCEPT !.freq = (@ - (@ % 256)) + value]
      [] addr = 65300 ->
            [t EXCEPT !.counter = Bit(value, 6),
                      !.freq = (@ - ((@ \div 256) % 8) * 256) + (value % 16) * 256]
      [] OTHER -> t

\* The tone after Inner::on_write(addr, value); addresses are written in
\* decimal: 65296 = FF10, ..., 65300 = FF14.
ToneAfterWrite(t, addr, value) ==
    CASE addr = 65296 ->
            [t EXCEPT !.sweep_time  = (value \div 16) % 8,
                      !.sweep_sub   = Bit(value, 3),
                      !.sweep_shift = value % 8]
      [] addr = 65297 ->
            [t EXCEPT !.wave_duty = WaveDutyFrom(value \div 64),
                      !.sound_len = value % 64]
      [] addr = 65298 ->
            [t EXCEPT !.env_init  = value \div 16,
                      !.env_inc   = Bit(value, 3),
                      !.env_count = value % 8]
      [] addr = 65299 ->
            [t EXCEPT !.freq = (@ - (@ % 256)) + value]
      [] addr = 65300 ->
            [t EXCEPT !.counter = Bit(value, 6),
                      !.freq = (@ - ((@ \div 256) % 8) * 256) + (value % 8) * 256]
      [] OTHER -> t

\* Inner::play_tone1: the stream handed to Speaker::play captures the
\* envelope and the frequency divider 2048 - freq of the tone.
PlayTone1(t) ==
    [call |-> "play", div |-> 2048 - t.freq, env_init |-> t.env_init,
     env_count |-> t.env_count, env_inc |-> t.env_inc]

\* A variant that plays on every write to FF14.
SpeakerCallsAnyFF14(t, addr, value) ==
    IF addr = 65300 THEN <<PlayTone1(t)>> ELSE <<>>

\* The calls Inner::on_write(addr, value) makes on the speaker, given the
\* tone it has just stored: only a write to FF14 with bit 7 set plays.
SpeakerCalls(t, addr, value) ==
    IF addr = 65300 /\ Bit(value, 7) THEN <<PlayTone1(t)>> ELSE <<>>

\* A variant that lets the write through to the backing RAM.
SoundOnWritePassing == "PassThrough"

\* What the handler answers the bus.
SoundOnWriteResult == "Block"

SoundOnReadResult == "PassThrough"

\* The registers and the bytes the model writes.
SoundAddrs == {65296, 65297, 65298, 65299, 65300, 65305, 65310, 65315, 65318}

SoundBytes == {0, 65, 134, 255}

\* SoundMemHandler::on_write(addr, value): the fields are stored, then the
\* speaker is called.
SoundOnWrite(addr, value) ==
    \E t \in {ToneAfterWrite(tone, addr, value)} :
        /\ tone' = t
        /\ speaker' = speaker \o SpeakerCalls(t, addr, value)
        /\ lastWrite' = [kind |-> "write", addr |-> addr, value |-> value,
                         res |-> SoundOnWriteResult,
                         calls |-> SpeakerCalls(t, addr, value)]
        /\ regs' = CASE addr = 65299 -> [regs EXCEPT !.ff13 = value]
                     [] addr = 65300 -> [regs EXCEPT !.ff14 = value]
                     [] OTHER        -> regs

\* A write reaching the handler.
SoundWrite(addr, value) ==
    /\ writes < MaxWrites
    /\ SoundOnWrite(addr, value)
    /\ writes' = writes + 1
    /\ UNCHANGED <<sysVars, busVars>>

\* SoundMemHandler::on_read(addr).
SoundRead(addr) ==
    /\ writes < MaxWrites
    /\ lastWrite' = [kind |-> "read", addr |-> addr, value |-> 0,
                     res |-> SoundOnReadResult, calls |-> <<>>]
    /\ writes' = writes + 1
    /\ UNCHANGED <<tone, speaker, regs, sysVars, busVars>>

SndInit ==
    /\ tone = ToneInit
    /\ speaker = <<>>
    /\ lastWrite = [kind |-> "none", addr |-> 0, value |-> 0,
                    res |-> "none", calls |-> <<>>]
    /\ regs = [ff13 |-> 0, ff14 |-> 0]
    /\ writes = 0

SndWrites == \E addr \in SoundAddrs, value \in SoundBytes : SoundWrite(addr, value)

SndReads == \E addr \in SoundAddrs : SoundRead(addr)

(***************************************************************************)
(* The bus.  System::new registers the handlers below, in this order       *)
(* (addresses in decimal, the source's hexadecimal beside them).           *)
(***************************************************************************)
HandlersDebuggerLast ==
    << [lo |-> 49152, hi |-> 57343, dev |-> "cgb"],
       [lo |-> 65357, hi |-> 65357, dev |-> "cgb"],
       [lo |-> 65366, hi |-> 65366, dev |-> "cgb"],
       [lo |-> 65392, hi |-> 65392, dev |-> "cgb"],
       [lo |-> 0,     hi |-> 32767, dev |-> "mbc"],
       [lo |-> 65360, hi |-> 65360, dev |-> "mbc"],
       [lo |-> 40960, hi |-> 49151, dev |-> "mbc"],
       [lo |-> 65296, hi |-> 65343, dev |-> "sound"],
       [lo |-> 65350, hi |-> 65350, dev |-> "dma"],
       [lo |-> 32768, hi |-> 40959, dev |-> "gpu"],
       [lo |-> 65344, hi |-> 65365, dev |-> "gpu"],
       [lo |-> 65384, hi |-> 65387, dev |-> "gpu"],
       [lo |-> 65295, hi |-> 65295, dev |-> "ic"],
       [lo |-> 65535, hi |-> 65535, dev |-> "ic"],
       [lo |-> 65280, hi |-> 65280, dev |-> "joypad"],
       [lo |-> 65284, hi |-> 65287, dev |-> "timer"],
       [lo |-> 65281, hi |-> 65282, dev |-> "serial"],
       [lo |-> 0,     hi |-> 65535, dev |-> "dbg"] >>

\* A variant that registers the Gpu's ranges before the Cgb's, the Mbc's
\* and the Dma's.
HandlersGpuEarly ==
    << [lo |-> 0,     hi |-> 65535, dev |-> "dbg"],
       [lo |-> 32768, hi |-> 40959, dev |-> "gpu"],
       [lo |-> 65344, hi |-> 65365, dev |-> "gpu"],
       [lo |-> 65384, hi |-> 65387, dev |-> "gpu"],
       [lo |-> 49152, hi |-> 57343, dev |-> "cgb"],
       [lo |-> 65357, hi |-> 65357, dev |-> "cgb"],
       [lo |-> 65366, hi |-> 65366, dev |-> "cgb"],
       [lo |-> 65392, hi |-> 65392, dev |-> "cgb"],
       [lo |-> 0,     hi |-> 32767, dev |-> "mbc"],
       [lo |-> 65360, hi |-> 65360, dev |-> "mbc"],
       [lo |-> 40960, hi |-> 49151, dev |-> "mbc"],
       [lo |-> 65296, hi |-> 65343, dev |-> "sound"],
       [lo |-> 65350, hi |-> 65350, dev |-> "dma"],
       [lo |-> 65295, hi |-> 65295, dev |-> "ic"],
       [lo |-> 65535, hi |-> 65535, dev |-> "ic"],
       [lo |-> 65280, hi |-> 65280, dev |-> "joypad"],
       [lo |-> 65284, hi |-> 65287, dev |-> "timer"],
       [lo |-> 65281, hi |-> 65282, dev |-> "serial"] >>

Handlers ==
    << [lo |-> 0,     hi |-> 65535, dev |-> "dbg"],     \* 0000-FFFF
       [lo |-> 49152, hi |-> 57343, dev |-> "cgb"],     \* C000-DFFF
       [lo |-> 65357, hi |-> 65357, dev |-> "cgb"],     \* FF4D
       [lo |-> 65366, hi |-> 65366, dev |-> "cgb"],     \* FF56
       [lo |-> 65392, hi |-> 65392, dev |-> "cgb"],     \* FF70
       [lo |-> 0,     hi |-> 32767, dev |-> "mbc"],     \* 0000-7FFF
       [lo |-> 65360, hi |-> 65360, dev |-> "mbc"],     \* FF50
       [lo |-> 40960, hi |-> 49151, dev |-> "mbc"],     \* A000-BFFF
       [lo |-> 65296, hi |-> 65343, dev |-> "sound"],   \* FF10-FF3F
       [lo |-> 65350, hi |-> 65350, dev |-> "dma"],     \* FF46
       [lo |-> 32768, hi |-> 40959, dev |-> "gpu"],     \* 8000-9FFF
       [lo |-> 65344, hi |-> 65365, dev |-> "gpu"],     \* FF40-FF55
       [lo |-> 65384, hi |-> 65387, dev |-> "gpu"],     \* FF68-FF6B
       [lo |-> 65295, hi |-> 65295, dev |-> "ic"],      \* FF0F
       [lo |-> 65535, hi |-> 65535, dev |-> "ic"],      \* FFFF
       [lo |-> 65280, hi |-> 65280, dev |-> "joypad"],  \* FF00
       [lo |-> 65284, hi |-> 65287, dev |-> "timer"],   \* FF04-FF07
       [lo |-> 65281, hi |-> 65282, dev |-> "serial"] >> \* FF01-FF02

AddrSpace == 0..65535

\* The range the sound handler is registered on, FF10-FF3F.
SoundRange == 65296..65343

\* The handlers whose range contains the address, in registration order.
Matching(a) ==
    LET Covers(h) == h.lo <= a /\ a <= h.hi
    IN  SelectSeq(Handlers, Covers)

\* The addresses the model accesses: both ends of the regions of the memory
\* map and the registers with a handler of their own.
\*   0000 8000 9FFF C000 FE00 FE9F FF10 FF14 FF3F FF40 FF46 FF4B FF4D FF50
\*   FF68 FF80 FFFF
BusAddrs ==
    {0, 32768, 40959, 49152, 65024, 65183, 65296, 65300, 65343, 65344, 65350,
     65355, 65357, 65360, 65384, 65408, 65535}

ByteSamples == {0, 255}

\* High RAM, FF80-FFFE.
Hram == 65408..65534

PassThrough == [pass |-> TRUE, byte |-> 0]

Replace(b) == [pass |-> FALSE, byte |-> b]

\* What a handler may answer a read: the debugger and the sound handler pass
\* every read through; the other handlers replace the byte or pass.
ReadAnswers(dev) ==
    IF dev \in {"dbg", "sound"} THEN {PassThrough}
    ELSE {PassThrough} \cup {Replace(b) : b \in ByteSamples}

\* What a handler may answer a write: TRUE is Block. The debugger passes,
\* the sound handler blocks.
WriteAnswers(dev) ==
    CASE dev = "dbg"   -> {FALSE}
      [] dev = "sound" -> {SoundOnWriteResult = "Block"}
      [] OTHER         -> BOOLEAN

\* Mmu::get8: the handlers of the address are asked in registration order
\* and the first that replaces the byte supplies it; the backing byte is
\* returned when every handler passes.
ReadDispatch(m, rs, backing) ==
    LET hit == {i \in 1..Len(m) : ~rs[i].pass}
    IN  IF hit = {}
        THEN [consulted |-> [i \in 1..Len(m) |-> m[i].dev],
              replaced |-> FALSE, value |-> backing]
        ELSE LET k == CHOOSE i \in hit : \A j \in hit : i <= j
             IN  [consulted |-> [i \in 1..k |-> m[i].dev],
                  replaced |-> TRUE, value |-> rs[k].byte]

\* Mmu::set8: every handler of the address sees the write; the byte is
\* stored unless one of them blocks.
WriteDispatch(m, bs) ==
    [consulted |-> [i \in 1..Len(m) |-> m[i].dev],
     blocked |-> \E i \in 1..Len(m) : bs[i]]

\* The handlers of each address the model accesses.
MatchAt == [a \in BusAddrs |-> Matching(a)]

Devs(m) == {m[i].dev : i \in 1..Len(m)}

\* A read of the Cpu.
BusRead(a) ==
    /\ busOps < MaxBusOps
    /\ \E m \in {MatchAt[a]} :
         \E rs \in [1..Len(m) -> {PassThrough} \cup {Replace(b) : b \in ByteSamples}] :
          /\ \A i \in 1..Len(m) : rs[i] \in ReadAnswers(m[i].dev)
          /\ \E d \in {ReadDispatch(m, rs, ram[a])} :
                /\ access' = [kind |-> "read", addr |-> a, value |-> d.value,
                              consulted |-> d.consulted, stopped |-> d.replaced,
                              dma |-> dmaActive]
                /\ IF \E i \in 1..Len(d.consulted) : d.consulted[i] = "sound"
                   THEN /\ lastWrite' = [kind |-> "read", addr |-> a, value |-> 0,
                                         res |-> SoundOnReadResult, calls |-> <<>>]
                        /\ UNCHANGED <<tone, speaker, regs, writes>>
                   ELSE UNCHANGED sndVars
    /\ busOps' = busOps + 1
    /\ UNCHANGED <<dmaActive, ram, sysVars>>

\* A write of the Cpu. The Dma's handler starts a transfer on a write to
\* FF46; the sound handler decodes the write.
BusWrite(a, v) ==
    /\ busOps < MaxBusOps
    /\ \E m \in {MatchAt[a]} :
          /\ \E bs \in [1..Len(m) -> BOOLEAN] :
                /\ \A i \in 1..Len(m) : bs[i] \in WriteAnswers(m[i].dev)
                /\ \E d \in {WriteDispatch(m, bs)} :
                      /\ access' = [kind |-> "write", addr |-> a, value |-> v,
                                    consulted |-> d.consulted, stopped |-> d.blocked,
                                    dma |-> dmaActive]
                      /\ ram' = IF d.blocked THEN ram ELSE [ram EXCEPT ![a] = v]
          /\ dmaActive' = (dmaActive \/ "dma" \in Devs(m))
          /\ IF "sound" \in Devs(m)
             THEN SoundOnWrite(a, v) /\ UNCHANGED writes
             ELSE UNCHANGED sndVars
    /\ busOps' = busOps + 1
    /\ UNCHANGED sysVars

\* The step's call of Dma::step(&mut mmu): the transfer goes on or ends.
StepDma ==
    /\ dmaActive
    /\ \E done \in BOOLEAN : dmaActive' = ~done
    /\ UNCHANGED <<ram, access, busOps, sysVars, sndVars>>

BusReads == \E a \in BusAddrs : BusRead(a)

BusWrites == \E a \in BusAddrs, v \in ByteSamples : BusWrite(a, v)

\* The bus after System::new was handed a backing RAM whose bytes behind
\* the sound registers are b and whose other bytes are zero.
BusInitFrom(b) ==
    /\ dmaActive = FALSE
    /\ ram = [a \in BusAddrs |-> IF a \in SoundRange THEN b ELSE 0]
    /\ access = [kind |-> "none", addr |-> 0, value |-> 0, consulted |-> <<>>,
                 stopped |-> FALSE, dma |-> FALSE]
    /\ busOps = 0

\* run_inner hands System::new a RAM of zeroes.
BusInit == BusInitFrom(0)

\* System::new is handed the backing RAM by its caller: any bytes.
BusInitAny == \E b \in ByteSamples : BusInitFrom(b)

Init == SysInit /\ BusInit /\ SndInit

\* The system after System::new with a backing RAM of the caller's.
InitAnyRam == SysInit /\ BusInitAny /\ SndInit

Next == HostPoll \/ RunInner

Spec == Init /\ [][Next]_vars

SoundNext == SndWrites \/ SndReads

SoundSpec == Init /\ [][SoundNext]_vars

BusNext == BusReads \/ BusWrites \/ StepDma

BusSpec == InitAnyRam /\ [][BusNext]_vars

(***************************************************************************)
(* Reading the trace of the last poll.                                     *)
(***************************************************************************)
Ops(tr) == [i \in 1..Len(tr) |-> tr[i].op]

Count(tr, op) == Cardinality({i \in 1..Len(tr) : tr[i].op = op})

\* The position of the (first) call of op in tr, 0 if there is none.
Pos(tr, op) ==
    IF \E i \in 1..Len(tr) : tr[i].op = op
    THEN CHOOSE i \in 1..Len(tr) :
            tr[i].op = op /\ \A j \in 1..(i - 1) : tr[j].op # op
    ELSE 0

\* The calls of the step of the last poll (the poll's trace after sched).
StepTrace == IF Len(trace) > 1 THEN SubSeq(trace, 2, Len(trace)) ELSE <<>>

\* The nine sub-operations of a step in the order the specification lists.
ListedOrder ==
    <<"check_signal", "take_cpu_snapshot", "on_decode", "execute",
      "check_interrupt", "dma", "gpu", "timer", "serial", "joypad", "adjust">>

\* The cycles the Cpu returned in the last step: execute plus interrupt check.
CpuCycles ==
    trace[Pos(trace, "execute")].out + trace[Pos(trace, "check_interrupt")].out

(***************************************************************************)
(* C1 (as stated): every step performs all the listed sub-operations, in   *)
(* the listed order, none skipped or repeated.                             *)
(***************************************************************************)
C1_NoneSkipped ==
    ret = "true" => Ops(StepTrace) = ListedOrder

(***************************************************************************)
(* C1 (amended): every step performs the listed sub-operations in the      *)
(* listed order, each once, except that the GPU advance is left out        *)
(* exactly when gpu_enabled is false and the frequency adjust exactly when *)
(* native_speed is true; the snapshot the debugger took is the Cpu before  *)
(* the instruction; the DMA advance precedes the GPU advance.              *)
(***************************************************************************)
C1_StepOrder ==
    ret = "true" =>
        LET Kept(op) == /\ (op = "gpu" => gpu_enabled)
                        /\ (op = "adjust" => ~native_speed)
        IN  /\ Ops(StepTrace) = SelectSeq(ListedOrder, Kept)
            /\ snapshot.n + 1 = cpu.n
            /\ (gpu_enabled => Pos(trace, "dma") < Pos(trace, "gpu"))

C1_Witness ==
    /\ ret = "true"
    /\ gpu_enabled
    /\ ~native_speed
    /\ Len(trace) = 12
    /\ polls > 1

(***************************************************************************)
(* C2: a poll calls sched() once and first; when sched() returns false the *)
(* poll returns false and has changed nothing; when it returns true the    *)
(* poll has performed one complete step and returns true; after a false    *)
(* return the run loop makes no further poll.                              *)
(***************************************************************************)
C2_SchedFirst ==
    /\ [](ret # "none" =>
            /\ trace[1].op = "sched"
            /\ Count(trace, "sched") = 1
            /\ (ret = "false" <=> halted)
            /\ (ret = "false" => Len(trace) = 1)
            /\ (ret = "true" =>
                  /\ Count(trace, "execute") = 1
                  /\ StepTrace[1].op = "check_signal"
                  /\ StepTrace[Len(StepTrace)].op
                        = (IF native_speed THEN "joypad" ELSE "adjust")))
    /\ [][/\ (polls' # polls /\ ret' = "false" =>
                 UNCHANGED <<cpu, irq, watch, latency, raises, snapshot, advanced>>)
          /\ (polls' # polls /\ ret' = "true" => cpu'.n = cpu.n + 1)
          /\ (halted => polls' = polls)]_vars

C2_Witness ==
    /\ ret = "false"
    /\ halted
    /\ polls > 1
    /\ cpu.n = polls - 1

(***************************************************************************)
(* C3 (as stated): in every step the DMA, the GPU, the timer and the       *)
(* serial port are each advanced by the cycle count the Cpu returned.      *)
(***************************************************************************)
C3_AllGetCycles ==
    ret = "true" =>
        \A i \in 1..Len(trace) :
            trace[i].op \in {"dma", "gpu", "timer", "serial"}
                => trace[i].arg = CpuCycles

(***************************************************************************)
(* C4 (as stated): a line raised while enabled and with IME set enters its *)
(* service vector within 5 machine cycles.                                 *)
(***************************************************************************)
C4_LatencyWithin5 ==
    /\ (watch.line # "none" => watch.age <= 5)
    /\ latency <= 5

(***************************************************************************)
(* C5: with native_speed set no step calls the frequency controller's      *)
(* adjust; without it every step calls adjust exactly once, as its last    *)
(* call.                                                                   *)
(***************************************************************************)
C5_Pacing ==
    /\ (native_speed =>
          /\ Count(trace, "adjust") = 0
          /\ advanced["adjust"] = 0)
    /\ (~native_speed =>
          /\ advanced["adjust"] = cpu.n
          /\ (ret = "true" =>
                /\ Count(trace, "adjust") = 1
                /\ trace[Len(trace)].op = "adjust"))

C5_Witness ==
    /\ native_speed
    /\ ret = "true"
    /\ polls > 1
    /\ advanced["joypad"] = polls

(***************************************************************************)
(* C6 (as stated): for each of the four channels, a write to the channel's *)
(* NRx4 register (FF14, FF19, FF1E, FF23) with bit 7 set submits a stream  *)
(* to the speaker through play.                                            *)
(***************************************************************************)
C6_EveryTriggerPlays ==
    (/\ lastWrite.kind = "write"
     /\ lastWrite.addr \in {65300, 65305, 65310, 65315}
     /\ Bit(lastWrite.value, 7))
        => \E i \in 1..Len(lastWrite.calls) : lastWrite.calls[i].call = "play"

(***************************************************************************)
(* C7 (as stated): a write that disables a playing channel (the master     *)
(* switch FF26 with bit 7 clear, or the envelope register FF12 with its    *)
(* upper five bits clear) makes the handler call stop() on the speaker.    *)
(***************************************************************************)
C7_StopOnDisable ==
    (/\ lastWrite.kind = "write"
     /\ \/ lastWrite.addr = 65318 /\ ~Bit(lastWrite.value, 7)
        \/ lastWrite.addr = 65298 /\ lastWrite.value \div 8 = 0
     /\ Len(speaker) > Len(lastWrite.calls))
        => \E i \in 1..Len(lastWrite.calls) : lastWrite.calls[i].call = "stop"

\* No write at all makes the handler call stop().
C7_NeverStops ==
    \A i \in 1..Len(speaker) : speaker[i].call # "stop"

\* The devices of the handlers a bus access consulted.
Consulted == {access.consulted[i] : i \in 1..Len(access.consulted)}

(***************************************************************************)
(* C8: the debugger's handler is registered on 0000-FFFF and before every  *)
(* other handler: it is among the handlers of every address, the first of  *)
(* them, and the first handler every bus read and write consults.          *)
(***************************************************************************)
DebuggerFirstEverywhere ==
    \A a \in AddrSpace : Matching(a) # <<>> /\ Matching(a)[1].dev = "dbg"

C8_DebuggerFirst ==
    /\ Handlers[1] = [lo |-> 0, hi |-> 65535, dev |-> "dbg"]
    /\ DebuggerFirstEverywhere
    /\ (access.kind # "none" =>
          /\ access.consulted # <<>>
          /\ access.consulted[1] = "dbg")

C8_Witness ==
    /\ access.kind = "read"
    /\ access.addr = 65350
    /\ access.consulted = <<"dbg", "dma", "gpu">>
    /\ busOps > 1

(***************************************************************************)
(* C9 (as stated): the GPU's handler is consulted for every bus access to  *)
(* VRAM 8000-9FFF, to OAM FE00-FE9F and to the registers FF40-FF4B and     *)
(* FF68-FF6B (a read that an earlier handler answered apart).              *)
(***************************************************************************)
C9_GpuConsulted ==
    (/\ access.kind # "none"
     /\ access.addr \in (32768..40959) \cup (65024..65183)
                           \cup (65344..65355) \cup (65384..65387)
     /\ ~(access.kind = "read" /\ access.stopped))
        => "gpu" \in Consulted

(***************************************************************************)
(* C10 (as stated): while a DMA transfer is active every read outside HRAM *)
(* returns FF and every write outside HRAM is blocked.                     *)
(***************************************************************************)
C10_DmaSuppresses ==
    (/\ access.kind # "none"
     /\ access.dma
     /\ access.addr \notin Hram)
        => /\ (access.kind = "read" => access.value = 255)
           /\ (access.kind = "write" => access.stopped)

(***************************************************************************)
(* C11: in every step the cycle count handed to the GPU, the timer, the    *)
(* serial port and the frequency controller is one and the same value: the *)
(* cycles execute returned plus the extra cycles the interrupt check       *)
(* returned in that step.                                                  *)
(***************************************************************************)
C11_OneCycleCount ==
    ret = "true" =>
        /\ Pos(trace, "execute") > 0
        /\ Pos(trace, "check_interrupt") > 0
        /\ \A i \in 1..Len(trace) :
              trace[i].op \in {"gpu", "timer", "serial", "adjust"}
                  => trace[i].arg = CpuCycles

\* A step whose interrupt check entered a vector after the dearest
\* instruction, with the GPU advanced and the frequency adjusted.
C11_Witness ==
    /\ ret = "true"
    /\ gpu_enabled
    /\ ~native_speed
    /\ trace[Pos(trace, "execute")].out = MaxInstrCycles
    /\ trace[Pos(trace, "check_interrupt")].out = InterruptCycles
    /\ trace[Pos(trace, "gpu")].arg = MaxInstrCycles + InterruptCycles
    /\ trace[Pos(trace, "adjust")].arg = MaxInstrCycles + InterruptCycles

\* The last access to the sound handler was a write to FF14 with bit 7 set.
Triggered ==
    /\ lastWrite.kind = "write"
    /\ lastWrite.addr = 65300
    /\ Bit(lastWrite.value, 7)

(***************************************************************************)
(* C12: over any sequence of writes to the sound handler, play is called   *)
(* exactly once for each write to FF14 whose value has bit 7 set and for   *)
(* no other write; the stream submitted is built after the counter flag    *)
(* and the frequency bits 8-10 of the triggering write are stored, so it   *)
(* uses the frequency of that write.                                       *)
(***************************************************************************)
C12_PlayOncePerTrigger ==
    /\ [](/\ (Triggered =>
                /\ Len(lastWrite.calls) = 1
                /\ lastWrite.calls[1].call = "play"
                /\ lastWrite.calls[1].div = 2048 - tone.freq
                /\ (tone.freq \div 256) % 8 = lastWrite.value % 8
                /\ tone.counter = Bit(lastWrite.value, 6)
                /\ speaker # <<>>
                /\ speaker[Len(speaker)] = lastWrite.calls[1])
           /\ (~Triggered => lastWrite.calls = <<>>))
    /\ [][writes' # writes => speaker' = speaker \o lastWrite'.calls]_vars

\* FF13 <- FF, FF14 <- 86, FF14 <- FF: two streams, the second with the
\* frequency bits of the third write.
C12_Witness ==
    /\ Triggered
    /\ lastWrite.value = 255
    /\ Len(speaker) = 2
    /\ speaker[1].div = 2048 - (6 * 256 + 255)
    /\ speaker[2].div = 1

\* The number the bits hi..lo of the byte v spell.
RECURSIVE Bits(_, _, _)
Bits(v, hi, lo) ==
    IF hi < lo THEN 0
    ELSE (IF Bit(v, hi) THEN 2 ^ (hi - lo) ELSE 0) + Bits(v, hi - 1, lo)

\* The duty cycle bits 7-6 of a byte name.
DutyOfBits(v) ==
    CASE ~Bit(v, 7) /\ ~Bit(v, 6) -> "P125"
      [] ~Bit(v, 7) /\  Bit(v, 6) -> "P250"
      []  Bit(v, 7) /\ ~Bit(v, 6) -> "P500"
      []  Bit(v, 7) /\  Bit(v, 6) -> "P750"

\* What the register layout says a write of v to FF10, FF11, FF12 or
\* FF15-FF3F makes of the tone t.
Decoded(t, addr, v) ==
    CASE addr = 65296 ->
            [t EXCEPT !.sweep_time  = Bits(v, 6, 4),
                      !.sweep_sub   = Bit(v, 3),
                      !.sweep_shift = Bits(v, 2, 0)]
      [] addr = 65297 ->
            [t EXCEPT !.wave_duty = DutyOfBits(v),
                      !.sound_len = Bits(v, 5, 0)]
      [] addr = 65298 ->
            [t EXCEPT !.env_init  = Bits(v, 7, 4),
                      !.env_inc   = Bit(v, 3),
                      !.env_count = Bits(v, 2, 0)]
      [] OTHER -> t

\* The addresses C13 speaks of: FF10, FF11, FF12 and FF15-FF3F.
DecodedAddrs == {65296, 65297, 65298} \cup (65301..65343)

\* A tone none of whose fields has its initial value.
ToneAllSet ==
    [sweep_time |-> 5, sweep_sub |-> TRUE, sweep_shift |-> 3,
     sound_len |-> 42, wave_duty |-> "P750",
     env_init |-> 9, env_inc |-> TRUE, env_count |-> 6,
     counter |-> TRUE, freq |-> 1365]

\* Every byte, written to every such address, on a fresh and on a fully
\* set tone.
DecodesEveryByte ==
    \A v \in 0..255 :
        /\ WaveDutyFrom(v \div 64) # "unreachable"
        /\ \A a \in DecodedAddrs, t \in {ToneInit, ToneAllSet} :
              ToneAfterWrite(t, a, v) = Decoded(t, a, v)

(***************************************************************************)
(* C13: for every byte v, a write of v to FF10 sets sweep_time to bits     *)
(* 6-4, sweep_sub to bit 3 and sweep_shift to bits 2-0; to FF11 sets       *)
(* wave_duty to the duty bits 7-6 name (never the unreachable arm) and     *)
(* sound_len to bits 5-0; to FF12 sets env_init to bits 7-4, env_inc to    *)
(* bit 3 and env_count to bits 2-0; each such write leaves every other     *)
(* field as it was, and a write to FF15-FF3F leaves the whole tone as it   *)
(* was.                                                                    *)
(***************************************************************************)
C13_Decoding ==
    /\ [](/\ DecodesEveryByte
           /\ tone.wave_duty # "unreachable")
    /\ [][(/\ writes' # writes
            /\ lastWrite'.kind = "write"
            /\ lastWrite'.addr \in DecodedAddrs)
              => tone' = Decoded(tone, lastWrite'.addr, lastWrite'.value)]_vars

\* FF10 <- FF, FF12 <- FF, FF11 <- 86: the third write sets the duty and
\* the length and keeps what the first two stored.
C13_Witness ==
    /\ lastWrite.kind = "write"
    /\ lastWrite.addr = 65297
    /\ lastWrite.value = 134
    /\ tone = [sweep_time |-> 7, sweep_sub |-> TRUE, sweep_shift |-> 7,
               sound_len |-> 6, wave_duty |-> "P500",
               env_init |-> 15, env_inc |-> TRUE, env_count |-> 7,
               counter |-> FALSE, freq |-> 0]

(***************************************************************************)
(* C14: after any sequence of writes to the sound registers the tone's     *)
(* frequency value is in 0..2047 and equals (the low 3 bits of the last    *)
(* byte written to FF14) * 256 + (the last byte written to FF13), a part   *)
(* never written counting 0; so the divider 2048 - freq that play_tone1    *)
(* computes is at least 1.                                                 *)
(***************************************************************************)
C14_FreqRange ==
    /\ tone.freq \in 0..2047
    /\ tone.freq = (regs.ff14 % 8) * 256 + regs.ff13
    /\ 2048 - tone.freq >= 1
    /\ \A i \in 1..Len(speaker) : speaker[i].div \in 1..2048

\* FF13 <- 41, FF14 <- 86 (plays), FF13 <- FF: the last write replaces
\* bits 0-7 only.
C14_Witness ==
    /\ regs = [ff13 |-> 255, ff14 |-> 134]
    /\ tone.freq = 6 * 256 + 255
    /\ Len(speaker) = 1
    /\ speaker[1].div = 2048 - (6 * 256 + 65)

(***************************************************************************)
(* C15: the sound handler answers Block to every write to FF10-FF3F and    *)
(* PassThrough to every read, so no write to a sound register is committed *)
(* to the backing RAM, and a read of a sound register returns the backing  *)
(* byte, the same before and after any writes to the sound registers.      *)
(***************************************************************************)
C15_SoundWritesBlocked ==
    /\ [](/\ \A a \in SoundRange \cap BusAddrs : "sound" \in Devs(MatchAt[a])
           /\ (access.kind = "write" /\ access.addr \in SoundRange =>
                 /\ access.stopped
                 /\ lastWrite.kind = "write"
                 /\ lastWrite.addr = access.addr
                 /\ lastWrite.res = "Block")
           /\ (access.kind = "read" /\ access.addr \in SoundRange =>
                 /\ ~access.stopped
                 /\ lastWrite.kind = "read"
                 /\ lastWrite.res = "PassThrough"
                 /\ access.value = ram[access.addr]))
    /\ [][\A a \in SoundRange \cap BusAddrs : ram'[a] = ram[a]]_vars

\* FF14 <- FF over a backing byte 0 (the tone has taken the write), then a
\* read of FF14: it returns 0.
C15_Witness ==
    /\ access.kind = "read"
    /\ access.addr = 65300
    /\ access.value = 0
    /\ regs.ff14 = 255
    /\ tone.freq = 7 * 256
    /\ Len(speaker) = 1

(***************************************************************************)
(* C16: a poll with gpu_enabled = false does not advance the GPU at all,   *)
(* while the debugger hooks, execute, the interrupt check, the DMA, the    *)
(* timer, the serial port, the joypad poll and the frequency adjust run in *)
(* the same relative order as with gpu_enabled = true, each once, and with *)
(* the same cycle count: the Cpu's cycles of that step.                    *)
(***************************************************************************)
C16_GpuDisabled ==
    /\ []((ret = "true" /\ ~gpu_enabled) =>
            LET Others(op) == op # "gpu" /\ (op = "adjust" => ~native_speed)
            IN  /\ Count(trace, "gpu") = 0
                /\ Ops(StepTrace) = SelectSeq(ListedOrder, Others)
                /\ \A i \in 1..Len(trace) :
                      trace[i].arg =
                          (IF trace[i].op \in {"timer", "serial", "adjust"}
                           THEN CpuCycles ELSE NoArg))
    /\ [][(polls' # polls /\ ~gpu_enabled') =>
            /\ advanced'["gpu"] = advanced["gpu"]
            /\ (ret' = "true" =>
                  \A c \in {"dma", "timer", "serial", "joypad"} :
                      advanced'[c] = advanced[c] + 1)]_vars

\* The third poll, without the GPU, after one poll with it and one
\* without: the interrupt check entered a vector and the adjust is called.
C16_Witness ==
    /\ ret = "true"
    /\ ~gpu_enabled
    /\ ~native_speed
    /\ polls = 3
    /\ advanced["gpu"] = 1
    /\ advanced["timer"] = 3
    /\ Len(trace) = 11
    /\ trace[Len(trace)].arg = MinInstrCycles + InterruptCycles

\* The registers inside the Gpu's range FF40-FF55 that have a handler of
\* their own, and whose: FF46 the Dma, FF4D the Cgb, FF50 the Mbc.
Dedicated == (65350 :> "dma") @@ (65357 :> "cgb") @@ (65360 :> "mbc")

\* At each of them the dedicated handler is registered before the Gpu's.
DedicatedBeforeGpu ==
    \A a \in DOMAIN Dedicated :
        /\ a \in 65344..65365
        /\ [i \in 1..Len(Matching(a)) |-> Matching(a)[i].dev]
              = <<"dbg", Dedicated[a], "gpu">>

\* Whatever the Gpu's handler would answer and whatever the backing byte, a
\* byte the dedicated handler replaces is the byte the read returns, and
\* the Gpu's handler is not asked.
DedicatedReplaceWins ==
    \A a \in DOMAIN Dedicated, b \in ByteSamples, backing \in ByteSamples :
        \A g \in ReadAnswers("gpu") :
            ReadDispatch(MatchAt[a], <<PassThrough, Replace(b), g>>, backing)
                = [consulted |-> <<"dbg", Dedicated[a]>>,
                   replaced |-> TRUE, value |-> b]

(***************************************************************************)
(* C17: the Gpu's range FF40-FF55 contains FF46 (Dma), FF4D (Cgb) and FF50 *)
(* (Mbc), whose handlers are registered before the Gpu's; a read of one of *)
(* them consults the dedicated handler before the Gpu's, and when the      *)
(* dedicated handler replaces the byte the Gpu's is not consulted; a write *)
(* to one of them is seen by both, the dedicated handler first.            *)
(***************************************************************************)
C17_DedicatedFirst ==
    /\ DedicatedBeforeGpu
    /\ DedicatedReplaceWins
    /\ (access.kind # "none" /\ access.addr \in DOMAIN Dedicated =>
          LET own == Dedicated[access.addr]
              n   == Len(access.consulted)
          IN  /\ n >= 2
              /\ access.consulted[2] = own
              /\ (access.kind = "write" =>
                    access.consulted = <<"dbg", own, "gpu">>)
              /\ (access.kind = "read" =>
                    /\ (n = 2 => access.stopped)
                    /\ (n = 3 => access.consulted[3] = "gpu")
                    /\ n <= 3))

\* A write to FF46 seen by the Dma and then the Gpu, then a read of FF46
\* that the Dma answers FF: the Gpu is not asked.
C17_Witness ==
    /\ access.kind = "read"
    /\ access.addr = 65350
    /\ access.stopped
    /\ access.value = 255
    /\ access.consulted = <<"dbg", "dma">>
    /\ dmaActive

\* The components whose handlers System::new registers on the bus.
OnTheBus == {Handlers[i].dev : i \in 1..Len(Handlers)}

(***************************************************************************)
(* C18: during a step the step loop holds the exclusive borrow of at most  *)
(* one component at a time and has released it before the next component   *)
(* is advanced; the debugger's borrow, taken for the pre-decode hooks, is   *)
(* released before the Cpu executes; while the Cpu executes the            *)
(* instruction or checks interrupts the step loop holds no borrow, so no   *)
(* handler the Cpu's bus accesses may reach belongs to a borrowed          *)
(* component.                                                              *)
(***************************************************************************)
C18_OneBorrowAtATime ==
    ret = "true" =>
        /\ \A i \in 1..Len(StepTrace) :
              LET e == StepTrace[i]
              IN  /\ Cardinality(e.held) <= 1
                  /\ (e.op \in {"check_signal", "take_cpu_snapshot", "on_decode"}
                        => e.held = {"dbg"} /\ i < Pos(StepTrace, "execute"))
                  /\ (e.op \in {"execute", "check_interrupt"}
                        => e.held \cap OnTheBus = {} /\ e.held = {})
                  /\ (e.op \in {"dma", "gpu", "timer", "serial", "joypad"}
                        => e.held = {e.op})
        /\ \A i \in 1..Len(StepTrace), j \in 1..Len(StepTrace) :
              (i < j /\ StepTrace[j].op \in Advancers)
                  => StepTrace[i].held \cap StepTrace[j].held = {}

\* A step with the GPU advanced whose interrupt check entered a vector
\* (the Cpu wrote the stack through the bus): the debugger was borrowed for
\* the hook before execute and nothing during execute and the check.
C18_Witness ==
    /\ ret = "true"
    /\ gpu_enabled
    /\ StepTrace[3].op = "on_decode"
    /\ StepTrace[3].held = {"dbg"}
    /\ StepTrace[4].op = "execute"
    /\ StepTrace[4].held = {}
    /\ StepTrace[5].out = InterruptCycles
    /\ StepTrace[5].held = {}
    /\ StepTrace[7].held = {"gpu"}

====
